---- MODULE Spec2Model ----
(***************************************************************************)
(* The aviary life-cycle simulation of src/cozypet.py: class Bird and      *)
(* class AviarySim, driven by one tick_once() call per external tick.      *)
(*                                                                         *)
(* random.Random draws are modelled as nondeterministic choices out of the *)
(* closed interval the code draws from.  The slot coordinates, the bird's   *)
(* wiggle_offset and the season colour are never read by the engine logic  *)
(* and are left out.                                                       *)
(***************************************************************************)
EXTENDS Integers, Sequences, FiniteSets, TLC

VARIABLES season, day, tick, spawn_timer, reset_timer, birds, just_reset,
          next_action, BIRD_ID, season_reset, ret, raised, lastOp

vars == <<season, day, tick, spawn_timer, reset_timer, birds, just_reset,
          next_action, BIRD_ID, season_reset, ret, raised, lastOp>>

(* ---------------- program constants ---------------- *)
TICKS_PER_DAY == 10
SPAWN_DELAY == 35
RESET_DELAY == 55
MaxBirds == 4
HatchMin == 50
HatchMax == 90
GrowMin == 80
GrowMax == 130
CooldownMin == 2400
CooldownMax == 3200
ActionMin == 80
ActionMax == 120

\* as SLOTS, but the back row is listed first
SLOTS_BackFirst == <<"back_left", "back_right", "front_left", "front_right">>

SLOTS == <<"front_left", "front_right", "back_left", "back_right">>

SlotNames == {SLOTS[i] : i \in DOMAIN SLOTS}

NoSlot == "no_slot"

NoAction == "none"

HatchlingActions == {"hop", "shake"}

AdultActions == {"drink", "preen", "hop", "shake"}

(* ---------------- bounds of the model ---------------- *)
\* seasons explored; a step that would start season MaxSeason + 1 is cut off
MaxSeason == 2
\* every draw takes the low end of its interval or one of the top k values;
\* with k = 0 the draw is the low end
HatchTop == 0
GrowTop == 0
CooldownTop == 0
DurationTop == 1

RandInt(lo, hi, top) == {x \in lo..hi : x = lo \/ x > hi - top}

RandHatch == RandInt(HatchMin, HatchMax, HatchTop)

RandGrow == RandInt(GrowMin, GrowMax, GrowTop)

RandDuration == RandInt(ActionMin, ActionMax, DurationTop)

\* AviarySim._action_cooldown
ActionCooldown == RandInt(CooldownMin, CooldownMax, CooldownTop)

(* ---------------- Bird ---------------- *)
Patterns == <<"mask", "wing", "belly", "speck">>

\* rng.choice over Patterns.  The pattern and the palette are written once,
\* at creation, and never read by the engine; one draw is explored.
RandPattern == {Patterns[1]}

\* build_bird_palette: the colours are kept as the names of the locals they
\* come from (QColor arithmetic is not modelled)
BuildBirdPalette(pattern) ==
    LET colors == [body |-> "primary", belly |-> "highlight", wing |-> "primary",
                   head |-> "primary", speck |-> "accent", beak |-> "beak",
                   eye |-> "deep", accent |-> "accent"]
    IN IF pattern = "mask" THEN [colors EXCEPT !.head = "accent"]
       ELSE IF pattern = "wing" THEN [colors EXCEPT !.wing = "accent"]
       ELSE IF pattern = "belly" THEN [colors EXCEPT !.belly = "accent_lighter"]
       ELSE [colors EXCEPT !.speck = "accent"]

NewBird(name, hatch, grow, id, pattern) ==
    [slot_name |-> name, stage |-> "egg", age |-> 0,
     hatch_ticks |-> hatch, grow_ticks |-> grow, id |-> id,
     pattern |-> pattern, palette |-> BuildBirdPalette(pattern),
     action |-> NoAction, action_timer |-> 0, action_duration |-> 0]

\* as AdvanceStage, but the age keeps counting across a stage change
AdvanceStage_KeepAge(b) ==
    LET a == b.age + 1 IN
    IF b.stage = "egg" /\ a >= b.hatch_ticks
      THEN [b EXCEPT !.stage = "hatchling", !.age = a]
    ELSE IF b.stage = "hatchling" /\ a >= b.grow_ticks
      THEN [b EXCEPT !.stage = "adult", !.age = a]
    ELSE [b EXCEPT !.age = a]

\* as AdvanceStage, but the thresholds are compared with > instead of >=
AdvanceStage_StrictThreshold(b) ==
    LET a == b.age + 1 IN
    IF b.stage = "egg" /\ a > b.hatch_ticks
      THEN [b EXCEPT !.stage = "hatchling", !.age = 0]
    ELSE IF b.stage = "hatchling" /\ a > b.grow_ticks
      THEN [b EXCEPT !.stage = "adult", !.age = 0]
    ELSE [b EXCEPT !.age = a]

\* Bird.advance, the stage part (lines 168-174)
AdvanceStage(b) ==
    LET a == b.age + 1 IN
    IF b.stage = "egg" /\ a >= b.hatch_ticks
      THEN [b EXCEPT !.stage = "hatchling", !.age = 0]
    ELSE IF b.stage = "hatchling" /\ a >= b.grow_ticks
      THEN [b EXCEPT !.stage = "adult", !.age = 0]
    ELSE [b EXCEPT !.age = a]

\* as AdvanceAction, but the action is cleared one advance late
AdvanceAction_LateClear(b) ==
    IF b.action # NoAction
      THEN LET t == b.action_timer + 1 IN
           IF t > b.action_duration
             THEN [b EXCEPT !.action = NoAction, !.action_timer = 0,
                            !.action_duration = 0]
             ELSE [b EXCEPT !.action_timer = t]
      ELSE b

\* Bird.advance, the action part (lines 175-180)
AdvanceAction(b) ==
    IF b.action # NoAction
      THEN LET t == b.action_timer + 1 IN
           IF t >= b.action_duration
             THEN [b EXCEPT !.action = NoAction, !.action_timer = 0,
                            !.action_duration = 0]
             ELSE [b EXCEPT !.action_timer = t]
      ELSE b

\* as Advance, but a stage change returns before the action part
Advance_ReturnOnStageChange(b) ==
    IF AdvanceStage(b).stage # b.stage
      THEN AdvanceStage(b)
      ELSE AdvanceAction(AdvanceStage(b))

Advance(b) == AdvanceAction(AdvanceStage(b))

\* as StartAction, but the duration is not stored
StartAction_NoDuration(b, name, duration) ==
    [b EXCEPT !.action = name, !.action_timer = 0]

StartAction(b, name, duration) ==
    [b EXCEPT !.action = name, !.action_duration = duration,
              !.action_timer = 0]

(* ---------------- AviarySim ---------------- *)
\* the engine's fields as one record, so that the methods are operators
Sim == [season |-> season, day |-> day, tick |-> tick,
        spawn_timer |-> spawn_timer, reset_timer |-> reset_timer,
        birds |-> birds, just_reset |-> just_reset,
        next_action |-> next_action, BIRD_ID |-> BIRD_ID, raised |-> raised]

OccupiedSlots(bs) == {bs[i].slot_name : i \in DOMAIN bs}

\* as NextSlotOf, but the slot list is not filtered by occupancy
NextSlotOf_Unfiltered(occupied) ==
    LET available == SLOTS IN
    IF available # <<>> THEN available[1] ELSE NoSlot

\* as NextSlotOf, but the last free slot is taken instead of the first
NextSlotOf_LastFree(occupied) ==
    LET available == SelectSeq(SLOTS, LAMBDA n : n \notin occupied) IN
    IF available # <<>> THEN available[Len(available)] ELSE NoSlot

NextSlotOf(occupied) ==
    LET available == SelectSeq(SLOTS, LAMBDA n : n \notin occupied) IN
    IF available # <<>> THEN available[1] ELSE NoSlot

NextSlot(s) == NextSlotOf(OccupiedSlots(s.birds))

\* as SpawnEgg, but without the early return: unpacking None raises
SpawnEgg_NoEarlyReturn(s, initial) ==
    LET nxt == NextSlot(s) IN
    IF nxt = NoSlot
      THEN {[s EXCEPT !.raised = TRUE]}
      ELSE UNION {{[s EXCEPT !.birds = Append(@, NewBird(nxt, hatch, grow,
                                                         s.BIRD_ID, pattern)),
                             !.BIRD_ID = @ + 1,
                             !.spawn_timer = IF initial THEN @ ELSE 0]
                     : hatch \in RandHatch, grow \in RandGrow}
                  : pattern \in RandPattern}

\* as SpawnEgg, but a non-initial spawn leaves spawn_timer alone
SpawnEgg_KeepTimer(s, initial) ==
    LET nxt == NextSlot(s) IN
    IF nxt = NoSlot
      THEN {s}
      ELSE UNION {{[s EXCEPT !.birds = Append(@, NewBird(nxt, hatch, grow,
                                                         s.BIRD_ID, pattern)),
                             !.BIRD_ID = @ + 1]
                     : hatch \in RandHatch, grow \in RandGrow}
                  : pattern \in RandPattern}

\* as SpawnEgg, but the new bird replaces the list instead of joining it
SpawnEgg_Replace(s, initial) ==
    LET nxt == NextSlot(s) IN
    IF nxt = NoSlot
      THEN {s}
      ELSE UNION {{[s EXCEPT !.birds = <<NewBird(nxt, hatch, grow,
                                                 s.BIRD_ID, pattern)>>,
                             !.BIRD_ID = @ + 1,
                             !.spawn_timer = IF initial THEN @ ELSE 0]
                     : hatch \in RandHatch, grow \in RandGrow}
                  : pattern \in RandPattern}

\* as SpawnEgg, but the two drawn thresholds are handed over swapped
SpawnEgg_SwappedThresholds(s, initial) ==
    LET nxt == NextSlot(s) IN
    IF nxt = NoSlot
      THEN {s}
      ELSE UNION {{[s EXCEPT !.birds = Append(@, NewBird(nxt, grow, hatch,
                                                         s.BIRD_ID, pattern)),
                             !.BIRD_ID = @ + 1,
                             !.spawn_timer = IF initial THEN @ ELSE 0]
                     : hatch \in RandHatch, grow \in RandGrow}
                  : pattern \in RandPattern}

\* the result is the set of engine states the call can return with
SpawnEgg(s, initial) ==
    LET nxt == NextSlot(s) IN
    IF nxt = NoSlot
      THEN {s}
      ELSE UNION {{[s EXCEPT !.birds = Append(@, NewBird(nxt, hatch, grow,
                                                         s.BIRD_ID, pattern)),
                             !.BIRD_ID = @ + 1,
                             !.spawn_timer = IF initial THEN @ ELSE 0]
                     : hatch \in RandHatch, grow \in RandGrow}
                  : pattern \in RandPattern}

\* as ResetSeason, but the day counter is not put back to 1
ResetSeason_KeepDay(s) ==
    LET cleared == [s EXCEPT !.tick = 0, !.spawn_timer = 0,
                             !.reset_timer = 0, !.birds = <<>>] IN
    {[e EXCEPT !.just_reset = TRUE, !.next_action = cd]
       : e \in SpawnEgg(cleared, TRUE), cd \in ActionCooldown}

ResetSeason(s) ==
    LET cleared == [s EXCEPT !.day = 1, !.tick = 0, !.spawn_timer = 0,
                             !.reset_timer = 0, !.birds = <<>>] IN
    {[e EXCEPT !.just_reset = TRUE, !.next_action = cd]
       : e \in SpawnEgg(cleared, TRUE), cd \in ActionCooldown}

\* as TryTriggerAction, but the stage is not looked at when choosing a bird
TryTriggerAction_AnyStage(s) ==
    LET choices == {i \in DOMAIN s.birds : s.birds[i].action = NoAction}
        names(i) == IF s.birds[i].stage = "hatchling"
                      THEN HatchlingActions ELSE AdultActions
    IN IF choices = {}
         THEN {s}
         ELSE UNION {{[s EXCEPT !.birds[i] = StartAction(@, a, d)]
                        : a \in names(i), d \in RandDuration}
                     : i \in choices}

TryTriggerAction(s) ==
    LET choices == {i \in DOMAIN s.birds :
                      /\ s.birds[i].stage \in {"hatchling", "adult"}
                      /\ s.birds[i].action = NoAction}
        names(i) == IF s.birds[i].stage = "hatchling"
                      THEN HatchlingActions ELSE AdultActions
    IN IF choices = {}
         THEN {s}
         ELSE UNION {{[s EXCEPT !.birds[i] = StartAction(@, a, d)]
                        : a \in names(i), d \in RandDuration}
                     : i \in choices}

\* as TickDay, but the day test looks at the tick before the increment
TickDay_OldTick(s) ==
    LET t == s.tick + 1 IN
    [s EXCEPT !.tick = t,
              !.day = IF s.tick % TICKS_PER_DAY = 0 THEN @ + 1 ELSE @]

\* tick_once lines 253-255
TickDay(s) ==
    LET t == s.tick + 1 IN
    [s EXCEPT !.tick = t,
              !.day = IF t % TICKS_PER_DAY = 0 THEN @ + 1 ELSE @]

\* tick_once lines 257-261: the birds after the advance loop
AdvanceAll(s) ==
    [s EXCEPT !.birds = [i \in DOMAIN s.birds |-> Advance(s.birds[i])]]

\* as Adults, but every hatched bird is counted
Adults_CountHatched(s) ==
    Cardinality({i \in DOMAIN s.birds : s.birds[i].stage # "egg"})

Adults(s) == Cardinality({i \in DOMAIN s.birds : s.birds[i].stage = "adult"})

\* as SpawnPhase, but the timer runs whether or not an adult is present
SpawnPhase_NoAdultCheck(s, adults) ==
    IF Len(s.birds) < MaxBirds
      THEN IF adults >= 0
             THEN LET t == [s EXCEPT !.spawn_timer = @ + 1] IN
                  IF t.spawn_timer >= SPAWN_DELAY
                    THEN SpawnEgg(t, FALSE)
                    ELSE {t}
             ELSE {[s EXCEPT !.spawn_timer = 0]}
      ELSE {s}

\* as SpawnPhase, but the egg is laid only once the timer has passed the delay
SpawnPhase_LateSpawn(s, adults) ==
    IF Len(s.birds) < MaxBirds
      THEN IF adults > 0
             THEN LET t == [s EXCEPT !.spawn_timer = @ + 1] IN
                  IF t.spawn_timer > SPAWN_DELAY
                    THEN SpawnEgg(t, FALSE)
                    ELSE {t}
             ELSE {[s EXCEPT !.spawn_timer = 0]}
      ELSE {s}

\* tick_once lines 263-269
SpawnPhase(s, adults) ==
    IF Len(s.birds) < MaxBirds
      THEN IF adults > 0
             THEN LET t == [s EXCEPT !.spawn_timer = @ + 1] IN
                  IF t.spawn_timer >= SPAWN_DELAY
                    THEN SpawnEgg(t, FALSE)
                    ELSE {t}
             ELSE {[s EXCEPT !.spawn_timer = 0]}
      ELSE {s}

\* as ResetPhase, but a full aviary is enough, adult or not
ResetPhase_FullOnly(s, adults) ==
    IF Len(s.birds) = MaxBirds
      THEN LET t == [s EXCEPT !.reset_timer = @ + 1] IN
           IF t.reset_timer >= RESET_DELAY
             THEN {[sim |-> r, season_reset |-> TRUE]
                     : r \in ResetSeason([t EXCEPT !.season = @ + 1])}
             ELSE {[sim |-> t, season_reset |-> FALSE]}
      ELSE {[sim |-> [s EXCEPT !.reset_timer = 0], season_reset |-> FALSE]}

\* as ResetPhase, but the reset fires one tick early
ResetPhase_EarlyReset(s, adults) ==
    IF Len(s.birds) = MaxBirds /\ adults = 4
      THEN LET t == [s EXCEPT !.reset_timer = @ + 1] IN
           IF t.reset_timer >= RESET_DELAY - 1
             THEN {[sim |-> r, season_reset |-> TRUE]
                     : r \in ResetSeason([t EXCEPT !.season = @ + 1])}
             ELSE {[sim |-> t, season_reset |-> FALSE]}
      ELSE {[sim |-> [s EXCEPT !.reset_timer = 0], season_reset |-> FALSE]}

\* as ResetPhase, but the reset fires one tick late
ResetPhase_LateReset(s, adults) ==
    IF Len(s.birds) = MaxBirds /\ adults = 4
      THEN LET t == [s EXCEPT !.reset_timer = @ + 1] IN
           IF t.reset_timer > RESET_DELAY
             THEN {[sim |-> r, season_reset |-> TRUE]
                     : r \in ResetSeason([t EXCEPT !.season = @ + 1])}
             ELSE {[sim |-> t, season_reset |-> FALSE]}
      ELSE {[sim |-> [s EXCEPT !.reset_timer = 0], season_reset |-> FALSE]}

\* as ResetPhase, but the season counter is not incremented
ResetPhase_NoSeasonBump(s, adults) ==
    IF Len(s.birds) = MaxBirds /\ adults = 4
      THEN LET t == [s EXCEPT !.reset_timer = @ + 1] IN
           IF t.reset_timer >= RESET_DELAY
             THEN {[sim |-> r, season_reset |-> TRUE] : r \in ResetSeason(t)}
             ELSE {[sim |-> t, season_reset |-> FALSE]}
      ELSE {[sim |-> [s EXCEPT !.reset_timer = 0], season_reset |-> FALSE]}

\* as ResetPhase, but the adult count is compared with > instead of =
ResetPhase_MoreThanFull(s, adults) ==
    IF Len(s.birds) = MaxBirds /\ adults > 4
      THEN LET t == [s EXCEPT !.reset_timer = @ + 1] IN
           IF t.reset_timer >= RESET_DELAY
             THEN {[sim |-> r, season_reset |-> TRUE]
                     : r \in ResetSeason([t EXCEPT !.season = @ + 1])}
             ELSE {[sim |-> t, season_reset |-> FALSE]}
      ELSE {[sim |-> [s EXCEPT !.reset_timer = 0], season_reset |-> FALSE]}

\* tick_once lines 271-278: pairs of the engine state and the local season_reset
ResetPhase(s, adults) ==
    IF Len(s.birds) = MaxBirds /\ adults = 4
      THEN LET t == [s EXCEPT !.reset_timer = @ + 1] IN
           IF t.reset_timer >= RESET_DELAY
             THEN {[sim |-> r, season_reset |-> TRUE]
                     : r \in ResetSeason([t EXCEPT !.season = @ + 1])}
             ELSE {[sim |-> t, season_reset |-> FALSE]}
      ELSE {[sim |-> [s EXCEPT !.reset_timer = 0], season_reset |-> FALSE]}

\* as ActionPhase, but the cooldown is redrawn only when an action was started
ActionPhase_RedrawOnStart(s) ==
    IF s.next_action > 0
      THEN {[s EXCEPT !.next_action = @ - 1]}
      ELSE {[t EXCEPT !.next_action = IF t = s THEN @ ELSE cd]
              : t \in TryTriggerAction(s), cd \in ActionCooldown}

\* as ActionPhase, but the cooldown is not redrawn after the trigger
ActionPhase_NoRedraw(s) ==
    IF s.next_action > 0
      THEN {[s EXCEPT !.next_action = @ - 1]}
      ELSE TryTriggerAction(s)

\* tick_once lines 280-284
ActionPhase(s) ==
    IF s.next_action > 0
      THEN {[s EXCEPT !.next_action = @ - 1]}
      ELSE {[t EXCEPT !.next_action = cd]
              : t \in TryTriggerAction(s), cd \in ActionCooldown}

\* as ReturnPhase, but the just_reset flag is never consumed
ReturnPhase_KeepFlag(u, reset) ==
    [sim |-> u,
     season_reset |-> reset,
     ret |-> (reset \/ u.just_reset)]

\* tick_once lines 286-288: consume the just_reset flag and return
ReturnPhase(u, reset) ==
    [sim |-> [u EXCEPT !.just_reset = FALSE],
     season_reset |-> reset,
     ret |-> (reset \/ u.just_reset)]

\* tick_once as a whole: the set of outcomes [sim, season_reset, ret].  s1 is
\* the engine after lines 253-261, adults the count taken in that loop.
TickOnce(s) ==
    UNION {UNION {UNION {UNION {{ReturnPhase(u, p.season_reset)
                                   : u \in ActionPhase(p.sim)}
                                : p \in ResetPhase(t, adults)}
                         : t \in SpawnPhase(s1, adults)}
                  : adults \in {Adults(s1)}}
           : s1 \in {AdvanceAll(TickDay(s))}}

\* AviarySim.__init__ up to the reset_season() call
Constructed ==
    [season |-> 1, day |-> 1, tick |-> 0, spawn_timer |-> 0,
     reset_timer |-> 0, birds |-> <<>>, just_reset |-> FALSE,
     next_action |-> 0, BIRD_ID |-> 0, raised |-> FALSE]

Install(s) ==
    /\ season' = s.season
    /\ day' = s.day
    /\ tick' = s.tick
    /\ spawn_timer' = s.spawn_timer
    /\ reset_timer' = s.reset_timer
    /\ birds' = s.birds
    /\ just_reset' = s.just_reset
    /\ next_action' = s.next_action
    /\ BIRD_ID' = s.BIRD_ID
    /\ raised' = s.raised

Init ==
    \E s \in ResetSeason(Constructed) :
        /\ season = s.season
        /\ day = s.day
        /\ tick = s.tick
        /\ spawn_timer = s.spawn_timer
        /\ reset_timer = s.reset_timer
        /\ birds = s.birds
        /\ just_reset = s.just_reset
        /\ next_action = s.next_action
        /\ BIRD_ID = s.BIRD_ID
        /\ raised = s.raised
        /\ season_reset = FALSE
        /\ ret = FALSE
        /\ lastOp = "init"

\* one external tick: CozyWindow.on_anim calls sim.tick_once()
Step ==
    \E r \in TickOnce(Sim) :
        /\ r.sim.season <= MaxSeason
        /\ Install(r.sim)
        /\ season_reset' = r.season_reset
        /\ ret' = r.ret
        /\ lastOp' = "step"

Next == Step

Spec == Init /\ [][Next]_vars

(* ---------------- forced scenarios ---------------- *)
\* A cooldown of at least 2400 ticks is redrawn by every reset_season, so
\* under Spec the idle-action trigger is never reached.  The scenarios set
\* next_action by hand on a freshly constructed engine, and call _spawn_egg
\* directly on a full aviary.
ForcedCooldowns == {0, 213}

InitScenario ==
    \E s \in ResetSeason(Constructed), k \in ForcedCooldowns :
        /\ season = s.season
        /\ day = s.day
        /\ tick = s.tick
        /\ spawn_timer = s.spawn_timer
        /\ reset_timer = s.reset_timer
        /\ birds = s.birds
        /\ just_reset = s.just_reset
        /\ next_action = k
        /\ BIRD_ID = s.BIRD_ID
        /\ raised = s.raised
        /\ season_reset = FALSE
        /\ ret = FALSE
        /\ lastOp = "init"

\* a direct call of _spawn_egg when all four slots are occupied
SpawnEggCall ==
    /\ Len(birds) = MaxBirds
    /\ \E initial \in BOOLEAN : \E r \in SpawnEgg(Sim, initial) : Install(r)
    /\ lastOp' = "spawn_egg"
    /\ UNCHANGED <<season_reset, ret>>

NextScenario == Step \/ SpawnEggCall

SpecScenario == InitScenario /\ [][NextScenario]_vars

(* ---------------- stepping forever ---------------- *)
\* season and BIRD_ID grow without bound and are read by nothing in
\* tick_once.  To follow the engine through any number of seasons they are
\* folded: a reset lands in season 1 again, with the MaxBirds ids that a
\* season uses up handed out anew.
Fold(s) ==
    IF s.season > 1
      THEN [s EXCEPT !.season = 1,
                     !.BIRD_ID = @ - MaxBirds,
                     !.birds = [i \in DOMAIN @ |->
                                  [@[i] EXCEPT !.id = @ - MaxBirds]]]
      ELSE s

StepForever ==
    \E r \in TickOnce(Sim) :
        /\ Install(Fold(r.sim))
        /\ season_reset' = r.season_reset
        /\ ret' = r.ret
        /\ lastOp' = "step"

NextForever == StepForever

\* the timer behind CozyWindow.on_anim keeps firing
SpecForever == Init /\ [][NextForever]_vars /\ WF_vars(StepForever)

(* ======================= properties ======================= *)
AllAdult(bs) == \A i \in DOMAIN bs : bs[i].stage = "adult"

NoAdult(bs) == \A i \in DOMAIN bs : bs[i].stage # "adult"

\* the stage-related outcome of one advance call, stated from the bird's fields
AdultAfterAdvance(b) ==
    \/ b.stage = "adult"
    \/ b.stage = "hatchling" /\ b.age + 1 >= b.grow_ticks

\* the first slot of the fixed order that is not in occ, NoSlot if there is none
FixedOrder == <<"front_left", "front_right", "back_left", "back_right">>

IsFirstFree(r, occ) ==
    IF \A k \in 1..4 : FixedOrder[k] \in occ
      THEN r = NoSlot
      ELSE \E k \in 1..4 : /\ r = FixedOrder[k]
                           /\ r \notin occ
                           /\ \A j \in 1..(k - 1) : FixedOrder[j] \in occ

\* C1: in every reachable state the population has between 0 and 4 birds and
\* no two live birds have the same slot_name.
C1_Capacity ==
    /\ Len(birds) >= 0
    /\ Len(birds) <= 4
    /\ \A i, j \in DOMAIN birds : i # j => birds[i].slot_name # birds[j].slot_name

C1_Witness == Len(birds) = 4 /\ lastOp = "step"

\* C2: in every advance call the stage stays or moves one step along
\* egg -> hatchling -> adult; the age is 0 exactly after a stage change and
\* otherwise one more than before; an adult stays adult and keeps ageing.
\* (A step that resets replaces the birds, so it advances none that is seen.)
C2_StageMonotone ==
    [][(lastOp' = "step" /\ ~season_reset') =>
         \A i \in DOMAIN birds :
            LET b == birds[i]
                c == birds'[i]
            IN /\ \/ c.stage = b.stage
                  \/ b.stage = "egg" /\ c.stage = "hatchling"
                  \/ b.stage = "hatchling" /\ c.stage = "adult"
               /\ (c.stage # b.stage) <=> (c.age = 0)
               /\ (c.stage = b.stage) => (c.age = b.age + 1)
               /\ (b.stage = "adult") => (c.stage = "adult" /\ c.age = b.age + 1)]_vars

C2_Witness ==
    /\ lastOp = "step"
    /\ \E i \in DOMAIN birds : birds[i].stage = "adult" /\ birds[i].age > GrowMax
    /\ \E j \in DOMAIN birds : birds[j].stage = "hatchling" /\ birds[j].age = 0

\* C3 as stated: a step from a state with population < 4 and no adult bird
\* does not increase spawn_timer and adds no bird.
C3_Original ==
    [][(lastOp' = "step" /\ Len(birds) < 4 /\ NoAdult(birds)) =>
         (spawn_timer' <= spawn_timer /\ Len(birds') = Len(birds))]_vars

\* C3 amended: a step with population < 4 in which no bird is adult once the
\* birds have been advanced leaves spawn_timer at 0 and adds no bird.
C3_NoSpawnWithoutAdult ==
    [][(lastOp' = "step" /\ Len(birds) < 4
        /\ \A i \in DOMAIN birds : ~AdultAfterAdvance(birds[i])) =>
         (spawn_timer' = 0 /\ spawn_timer' <= spawn_timer
          /\ Len(birds') = Len(birds))]_vars

C3_Witness ==
    /\ lastOp = "step"
    /\ Len(birds) = 1
    /\ birds[1].stage = "hatchling"
    /\ birds[1].age > SPAWN_DELAY
    /\ spawn_timer = 0

\* C4: a season reset happens only in a step whose state before the step has
\* four birds, all adult, and reset_timer one below RESET_DELAY; the season
\* then goes up by one.
C4_ResetGating ==
    [][(season' # season \/ season_reset') =>
         /\ lastOp' = "step"
         /\ Len(birds) = 4
         /\ AllAdult(birds)
         /\ reset_timer + 1 = RESET_DELAY
         /\ season' = season + 1
         /\ season_reset']_vars

C4_Witness == season_reset /\ season = 2 /\ lastOp = "step"

\* C5 as stated: a step from a state that does not have four adult birds
\* leaves reset_timer at 0.
C5_Original ==
    [][(lastOp' = "step" /\ ~(Len(birds) = 4 /\ AllAdult(birds))) =>
         reset_timer' = 0]_vars

\* C5 amended: a step in which, once the birds have been advanced, it is not
\* the case that there are four birds and all are adult leaves reset_timer at 0.
C5_NoPartialCredit ==
    [][(lastOp' = "step"
        /\ ~(Len(birds) = 4 /\ \A i \in DOMAIN birds : AdultAfterAdvance(birds[i]))) =>
         reset_timer' = 0]_vars

C5_Witness ==
    /\ lastOp = "step"
    /\ Len(birds) = 4
    /\ \E i \in DOMAIN birds : birds[i].stage = "hatchling"
    /\ \E j \in DOMAIN birds : birds[j].stage = "adult"
    /\ reset_timer = 0

\* C6: right after a season reset (the constructor's, or a step that reset)
\* there is exactly one bird, an egg of age 0, and tick = 0, day = 1,
\* spawn_timer = 0, reset_timer = 0.
C6_ResetComplete ==
    (just_reset \/ season_reset) =>
        /\ Len(birds) = 1
        /\ birds[1].stage = "egg"
        /\ birds[1].age = 0
        /\ tick = 0
        /\ day = 1
        /\ spawn_timer = 0
        /\ reset_timer = 0

C6_Witness == season_reset /\ lastOp = "step" /\ ~just_reset /\ season > 1

\* C7: no egg has an action, no hatchling has drink or preen, and an action
\* is only ever started on a hatchling (hop, shake) or an adult (drink, preen,
\* hop, shake) that has no action at that moment.
C7_ActionEligibility ==
    /\ [](\A i \in DOMAIN birds :
            /\ birds[i].stage = "egg" => birds[i].action = NoAction
            /\ birds[i].stage = "hatchling" => birds[i].action \notin {"drink", "preen"})
    /\ [][lastOp' = "step" =>
           \A i \in DOMAIN birds' :
              (birds'[i].action # NoAction /\ birds'[i].action_timer = 0) =>
                 /\ ~season_reset'
                 /\ i \in DOMAIN birds
                 /\ \/ birds[i].action = NoAction
                    \/ birds[i].action_timer + 1 >= birds[i].action_duration
                 /\ \/ birds'[i].stage = "hatchling"
                       /\ birds'[i].action \in {"hop", "shake"}
                    \/ birds'[i].stage = "adult"
                       /\ birds'[i].action \in {"drink", "preen", "hop", "shake"}]_vars

C7_Witness ==
    /\ \E i \in DOMAIN birds :
          /\ birds[i].stage = "hatchling"
          /\ birds[i].action \in {"hop", "shake"}
          /\ birds[i].action_timer = 0
    /\ \E j \in DOMAIN birds : birds[j].stage = "egg"
    /\ \E k \in DOMAIN birds : birds[k].stage = "adult" /\ birds[k].action = NoAction

\* C8: a step returns true exactly when it is the first step after
\* construction or it performed a season reset.
C8_ReturnSignal ==
    [][lastOp' = "step" =>
         (ret' <=> (lastOp = "init" \/ season' # season))]_vars

C8_Witness == ret /\ season_reset /\ season = 2

\* C9: _spawn_egg called (initial or not) with all four slots occupied raises
\* nothing and changes no field of the engine.
C9_FullSpawnNoOp ==
    [][(lastOp' = "spawn_egg" /\ Len(birds) = 4) =>
         /\ ~raised'
         /\ UNCHANGED <<season, day, tick, spawn_timer, reset_timer, birds,
                        just_reset, next_action, BIRD_ID>>]_vars

C9_Witness == lastOp = "spawn_egg" /\ Len(birds) = 4 /\ ~raised

\* C10: for every set of occupied slot names the allocator returns the first
\* slot of front_left, front_right, back_left, back_right that is not
\* occupied, and none exactly when all four are occupied; a bird added to the
\* population sits in that slot.
C10_FirstFreeSlot ==
    /\ [](\A occ \in SUBSET {FixedOrder[k] : k \in 1..4} :
            /\ IsFirstFree(NextSlotOf(occ), occ)
            /\ (NextSlotOf(occ) = NoSlot) <=> (occ = {FixedOrder[k] : k \in 1..4}))
    /\ [][(~season_reset' /\ Len(birds') # Len(birds)) =>
            /\ Len(birds') = Len(birds) + 1
            /\ IsFirstFree(birds'[Len(birds')].slot_name,
                           {birds[i].slot_name : i \in DOMAIN birds})]_vars

C10_Witness ==
    /\ Len(birds) = 3
    /\ birds[1].slot_name = "front_left"
    /\ birds[2].slot_name = "front_right"
    /\ birds[3].slot_name = "back_left"

Acting(bs) == {i \in DOMAIN bs : bs[i].action # NoAction}

\* C11: a step that does not reset adds 1 to tick and adds 1 to day exactly
\* when the new tick is a multiple of 10; day = 1 + tick div 10 throughout, so
\* a fresh engine has day 1 after 9 steps and day 2 after the 10th.
C11_DayCounter ==
    /\ [](day = 1 + (tick \div 10))
    /\ []((season = 1 /\ tick = 9) => day = 1)
    /\ []((season = 1 /\ tick = 10) => day = 2)
    /\ [][(lastOp' = "step" /\ season' = season) =>
            /\ tick' = tick + 1
            /\ day' = IF tick' % 10 = 0 THEN day + 1 ELSE day]_vars

C11_Witness == season = 1 /\ tick = 10 /\ day = 2 /\ lastOp = "step"

\* C12: an egg hatches (hatchling, age 0) in exactly the hatch_ticks-th step
\* after its creation and not before; a hatchling becomes adult (age 0) in
\* exactly the grow_ticks-th step after hatching; a bird spawned inside a
\* step is an egg of age 0 when the step returns.  For the season's first
\* egg the steps since creation are the tick counter.
C12_HatchTiming ==
    /\ [](Len(birds) >= 1 =>
            LET b == birds[1] IN
            /\ (b.stage = "egg") <=> (tick < b.hatch_ticks)
            /\ (b.stage = "egg") => (b.age = tick)
            /\ (b.stage = "hatchling") <=>
                  (b.hatch_ticks <= tick /\ tick < b.hatch_ticks + b.grow_ticks)
            /\ (b.stage = "hatchling") => (b.age = tick - b.hatch_ticks))
    /\ [][(lastOp' = "step" /\ season' = season) =>
            /\ \A i \in DOMAIN birds :
                 LET b == birds[i]
                     c == birds'[i]
                 IN /\ c.hatch_ticks = b.hatch_ticks /\ c.grow_ticks = b.grow_ticks
                    /\ (b.stage = "egg") =>
                          IF b.age + 1 = b.hatch_ticks
                            THEN c.stage = "hatchling" /\ c.age = 0
                            ELSE /\ b.age + 1 < b.hatch_ticks
                                 /\ c.stage = "egg" /\ c.age = b.age + 1
                    /\ (b.stage = "hatchling") =>
                          IF b.age + 1 = b.grow_ticks
                            THEN c.stage = "adult" /\ c.age = 0
                            ELSE /\ b.age + 1 < b.grow_ticks
                                 /\ c.stage = "hatchling" /\ c.age = b.age + 1
            /\ \A i \in (DOMAIN birds') \ (DOMAIN birds) :
                 birds'[i].stage = "egg" /\ birds'[i].age = 0]_vars

C12_Witness ==
    /\ Len(birds) >= 2
    /\ birds[2].stage = "hatchling"
    /\ birds[2].age = 0
    /\ birds[1].stage = "adult"

\* C13: from four adults with reset_timer = RESET_DELAY - 1 the next step
\* resets: season goes up by exactly 1, the population is a single egg, and
\* the step returns true.
C13_ResetFires ==
    [][(lastOp' = "step" /\ Len(birds) = 4 /\ AllAdult(birds)
        /\ reset_timer = 55 - 1) =>
          /\ season' = season + 1
          /\ Len(birds') = 1
          /\ birds'[1].stage = "egg"
          /\ ret']_vars

C13_Witness ==
    /\ ret
    /\ Len(birds) = 1
    /\ birds[1].stage = "egg"
    /\ tick = 0
    /\ season = 2

\* C14: in a step with population < 4 and an adult present once the birds
\* are advanced, spawn_timer goes up by exactly 1, and when that makes it 35
\* exactly one egg is added and spawn_timer is 0 again; every bird added
\* without a reset is added by such a step with spawn_timer at 34 before it.
C14_SpawnTimer ==
    [][lastOp' = "step" =>
         /\ (Len(birds) < 4 /\ \E i \in DOMAIN birds : AdultAfterAdvance(birds[i])) =>
               IF spawn_timer + 1 = 35
                 THEN /\ Len(birds') = Len(birds) + 1
                      /\ birds'[Len(birds')].stage = "egg"
                      /\ spawn_timer' = 0
                 ELSE /\ spawn_timer + 1 < 35
                      /\ spawn_timer' = spawn_timer + 1
                      /\ Len(birds') = Len(birds)
         /\ (season' = season /\ Len(birds') # Len(birds)) =>
               /\ Len(birds') = Len(birds) + 1
               /\ spawn_timer = 34
               /\ Len(birds) < 4
               /\ \E i \in DOMAIN birds : AdultAfterAdvance(birds[i])]_vars

C14_Witness ==
    /\ lastOp = "step"
    /\ Len(birds) = 2
    /\ birds[2].stage = "egg"
    /\ birds[2].age = 0
    /\ spawn_timer = 0

\* C15: season is 1 after construction, at least 1 always, goes up by exactly
\* 1 in a step that resets (the only steps that leave tick at 0) and is left
\* alone by every other step.
C15_SeasonCounter ==
    /\ [](season >= 1)
    /\ [](lastOp = "init" => season = 1)
    /\ [][season' = IF lastOp' = "step" /\ tick' = 0
                      THEN season + 1 ELSE season]_vars

C15_Witness == season = 2 /\ tick > 0 /\ lastOp = "step"

\* C16: when tick_once is called forever the action countdown eventually
\* reaches 0, so that a trigger is attempted, and an action is eventually
\* started on some bird.
C16_Original ==
    /\ <>(next_action = 0)
    /\ <>(Acting(birds) # {})

\* C17: in a step whose countdown has expired, next_action is redrawn from
\* 2400..3200 whether or not an action starts, nothing is raised, and when no
\* bird is eligible after the advance the trigger changes no bird; when one
\* is, exactly one eligible bird gets an action and the others are untouched.
C17_TriggerNoOp ==
    [][(lastOp' = "step" /\ next_action = 0 /\ season' = season) =>
         /\ next_action' >= 2400
         /\ next_action' <= 3200
         /\ ~raised'
         /\ LET adv == [i \in DOMAIN birds |-> Advance(birds[i])]
                eligible == {i \in DOMAIN birds :
                               /\ adv[i].stage \in {"hatchling", "adult"}
                               /\ adv[i].action = NoAction}
            IN IF eligible = {}
                 THEN \A i \in DOMAIN birds : birds'[i] = adv[i]
                 ELSE \E j \in eligible :
                        /\ birds'[j].action # NoAction
                        /\ birds'[j].stage = adv[j].stage
                        /\ birds'[j].age = adv[j].age
                        /\ \A i \in (DOMAIN birds) \ {j} : birds'[i] = adv[i]]_vars

C17_Witness ==
    /\ lastOp = "step"
    /\ tick = 1
    /\ next_action >= 2400
    /\ Len(birds) = 1
    /\ birds[1].stage = "egg"
    /\ birds[1].age = 1
    /\ birds[1].action = NoAction

\* C18: a step that does not reset removes no bird and changes no existing
\* bird's slot_name, hatch_ticks, grow_ticks, pattern, palette or id; in a
\* step that resets none of the old birds is left.
C18_PopulationOnlyGrows ==
    [][IF season' # season
         THEN \A i \in DOMAIN birds' : \A j \in DOMAIN birds :
                 birds'[i].id # birds[j].id
         ELSE /\ Len(birds') >= Len(birds)
              /\ \A i \in DOMAIN birds :
                   /\ birds'[i].slot_name = birds[i].slot_name
                   /\ birds'[i].hatch_ticks = birds[i].hatch_ticks
                   /\ birds'[i].grow_ticks = birds[i].grow_ticks
                   /\ birds'[i].pattern = birds[i].pattern
                   /\ birds'[i].palette = birds[i].palette
                   /\ birds'[i].id = birds[i].id]_vars

C18_Witness ==
    /\ lastOp = "step"
    /\ Len(birds) = 4
    /\ AllAdult(birds)
    /\ reset_timer > 0
    /\ \A i \in DOMAIN birds : birds[i].id = i - 1

\* C19: an action starts with timer 0; every later advance adds 1 to the
\* timer and keeps the action and its duration d, until the d-th advance,
\* which clears the action and puts timer and duration back to 0.
C19_ActionDuration ==
    [][(lastOp' = "step" /\ season' = season) =>
         \A i \in DOMAIN birds :
            LET b == birds[i]
                c == birds'[i]
            IN /\ (b.action # NoAction) =>
                     IF b.action_timer + 1 = b.action_duration
                       THEN /\ c.action = NoAction
                            /\ c.action_timer = 0
                            /\ c.action_duration = 0
                       ELSE /\ b.action_timer + 1 < b.action_duration
                            /\ c.action = b.action
                            /\ c.action_timer = b.action_timer + 1
                            /\ c.action_duration = b.action_duration
               /\ (b.action = NoAction /\ c.action # NoAction) =>
                     /\ c.action_timer = 0
                     /\ c.action_duration >= 80
                     /\ c.action_duration <= 120]_vars

C19_Witness ==
    \E i \in DOMAIN birds :
        /\ birds[i].action # NoAction
        /\ birds[i].action_timer + 1 = birds[i].action_duration

\* C20: at most one live bird has an action set.
C20_OneActionAtATime == Cardinality(Acting(birds)) <= 1

C20_Witness ==
    \E i, j \in DOMAIN birds :
        /\ i # j
        /\ birds[i].action # NoAction
        /\ birds[j].action = NoAction
        /\ birds[j].stage \in {"hatchling", "adult"}

(* ---------------- C21 ---------------- *)
\* the stage-related fields after one advance call, from the stage-related
\* fields before it
HatchesNow(b) == b.stage = "egg" /\ b.age + 1 >= b.hatch_ticks

GrowsNow(b) == b.stage = "hatchling" /\ b.age + 1 >= b.grow_ticks

StageRule(b, c) ==
    /\ c.stage = IF HatchesNow(b) THEN "hatchling"
                 ELSE IF GrowsNow(b) THEN "adult" ELSE b.stage
    /\ c.age = IF HatchesNow(b) \/ GrowsNow(b) THEN 0 ELSE b.age + 1

C22_AgeBelowThreshold ==
    \A i \in DOMAIN birds :
        /\ 50 <= birds[i].hatch_ticks /\ birds[i].hatch_ticks <= 90
        /\ 80 <= birds[i].grow_ticks /\ birds[i].grow_ticks <= 130
        /\ birds[i].stage = "egg"
             => 0 <= birds[i].age /\ birds[i].age < birds[i].hatch_ticks
        /\ birds[i].stage = "hatchling"
             => 0 <= birds[i].age /\ birds[i].age < birds[i].grow_ticks

\* an egg one tick short of hatching, next to a hatchling that is growing
C22_Witness ==
    /\ lastOp = "step"
    /\ \E i, j \in DOMAIN birds :
        /\ birds[i].stage = "egg"
        /\ birds[i].age = birds[i].hatch_ticks - 1
        /\ birds[j].stage = "hatchling"
        /\ birds[j].age > 0
        /\ birds[j].age < birds[j].grow_ticks

(* ---------------- C23 ---------------- *)
\* the tick of the step that ends the longest season: the first bird is adult
\* at HatchMax + GrowMax, the fourth egg is laid 3 * SPAWN_DELAY - 1 ticks
\* later and is adult HatchMax + GrowMax ticks after that, and the reset
\* follows RESET_DELAY - 1 ticks later
LongestSeason == 2 * (HatchMax + GrowMax) + 3 * SPAWN_DELAY + RESET_DELAY - 2

\* C23: when tick_once is called forever a resetting step is taken again and
\* again, each out of a state with four adult birds, which is therefore
\* reached again and again too; no season lasts more than LongestSeason
\* steps.
C23_SeasonsEnd ==
    /\ []<>season_reset
    /\ []<>(Len(birds) = 4 /\ AllAdult(birds))
    /\ [][season_reset' => (Len(birds) = 4 /\ AllAdult(birds))]_vars
    /\ [](tick < LongestSeason)

\* a season has just been ended by a reset
C23_Witness ==
    /\ lastOp = "step"
    /\ season_reset
    /\ ret
    /\ Len(birds) = 1
    /\ birds[1].age = 0
    /\ spawn_timer = 0
    /\ reset_timer = 0

(* ---------------- C24 ---------------- *)
\* C24: 0 <= spawn_timer < 35 and 0 <= reset_timer < 55 in every state
\* between steps (a timer that reaches its threshold is used up by the step
\* that takes it there), and spawn_timer is 0 whenever there are four birds.
C24_TimerRanges ==
    /\ 0 <= spawn_timer /\ spawn_timer < 35
    /\ 0 <= reset_timer /\ reset_timer < 55
    /\ Len(birds) = 4 => spawn_timer = 0

\* four birds, the spawn timer at rest and the reset timer one below its
\* threshold
C24_Witness ==
    /\ lastOp = "step"
    /\ Len(birds) = 4
    /\ spawn_timer = 0
    /\ reset_timer = RESET_DELAY - 1

(* ---------------- C25 ---------------- *)
\* C25: the k-th bird of the list sits in the k-th slot of the order
\* front_left, front_right, back_left, back_right, so with n birds exactly
\* the first n slots of that order are occupied.
C25_SlotPrefix ==
    /\ \A k \in DOMAIN birds : birds[k].slot_name = FixedOrder[k]
    /\ OccupiedSlots(birds) = {FixedOrder[k] : k \in 1..Len(birds)}

C25_Witness ==
    /\ Len(birds) = 4
    /\ birds[4].slot_name = "back_right"
    /\ birds[4].stage = "egg"
    /\ season > 1

(* ---------------- C26 ---------------- *)
\* C26: whenever there are two or more birds the first one, in front_left,
\* is adult; no step adds more than one bird.
C26_AdultBeforeSecond ==
    /\ [](Len(birds) >= 2 =>
            birds[1].stage = "adult" /\ birds[1].slot_name = "front_left")
    /\ [][Len(birds') <= Len(birds) + 1]_vars

\* the second bird has just been laid next to the adult first one
C26_Witness ==
    /\ lastOp = "step"
    /\ Len(birds) = 2
    /\ birds[1].stage = "adult"
    /\ birds[1].age = SPAWN_DELAY - 1
    /\ birds[2].stage = "egg"

(* ---------------- C27 ---------------- *)
\* draw_occupant line 609: the fraction action_timer / max(1, action_duration)
\* of an acting bird, 0.0 otherwise, as numerator and denominator
Prog(b) ==
    IF b.action # NoAction
      THEN [num |-> b.action_timer,
            den |-> IF 1 > b.action_duration THEN 1 ELSE b.action_duration]
      ELSE [num |-> 0, den |-> 1]

\* C27: a bird with an action has 80 <= action_duration <= 120 and
\* 0 <= action_timer < action_duration; a bird without one has both at 0; so
\* the fraction the window computes has a denominator of at least 1 and lies
\* in [0, 1).
C27_ActionFields ==
    \A i \in DOMAIN birds :
        /\ birds[i].action # NoAction
             => /\ 80 <= birds[i].action_duration
                /\ birds[i].action_duration <= 120
                /\ 0 <= birds[i].action_timer
                /\ birds[i].action_timer < birds[i].action_duration
        /\ birds[i].action = NoAction
             => birds[i].action_timer = 0 /\ birds[i].action_duration = 0
        /\ Prog(birds[i]).den >= 1
        /\ 0 <= Prog(birds[i]).num
        /\ Prog(birds[i]).num < Prog(birds[i]).den

\* the longest action on its last tick, next to a bird that has none
C27_Witness ==
    \E i, j \in DOMAIN birds :
        /\ birds[i].action # NoAction
        /\ birds[i].action_duration = 120
        /\ Prog(birds[i]).num = 119
        /\ birds[j].action = NoAction
        /\ Prog(birds[j]).num = 0

====
